---- MODULE Spec2Model ----
(***************************************************************************)
(* Model of the ga-evaluator service (src/app.py): the /evaluate handler,  *)
(* the /metrics and /healthz handlers, and the two process-wide Prometheus *)
(* metrics they share.                                                     *)
(*                                                                         *)
(* Numbers.  Python floats are modelled by exact integers and fractions:   *)
(* durations and energy rates are integers, a quotient is a pair           *)
(* <<num, den>> with den > 0, and the imbalance (a square root) is kept as *)
(* its sign and its square.  Rounding error is therefore outside the model.*)
(*                                                                         *)
(* Library calls.  Counter.inc and Histogram.observe (prometheus_client,   *)
(* not part of src/) are modelled as what the calls are written to do: one *)
(* atomic increment of the pod's counter, one atomic observation.  An      *)
(* exception that leaves the handler is modelled as a response of status   *)
(* 500 carrying the exception's name and the source line that raised it.   *)
(***************************************************************************)
EXTENDS Integers, Sequences, FiniteSets

VARIABLES pc, req, loc, resp, eval_counter, eval_duration, labelled

vars == <<pc, req, loc, resp, eval_counter, eval_duration, labelled>>

(* ------------------------------ bounds --------------------------------- *)
MaxLen == 2
MaxCore == 2
MaxDur == 2
MaxEnergy == 1
NumReq == 2

Slots == 1..NumReq

SeqsUpTo(S, n) == UNION {[1..k -> S] : k \in 0..n}

CoreIds == (-1)..MaxCore
Durations == (-1)..MaxDur
EnergyRates == 0..MaxEnergy

(* EvalRequest: every body pydantic accepts, within the bounds. *)
EvalRequest ==
    [individual : SeqsUpTo(CoreIds, MaxLen),
     execution_times : SeqsUpTo(Durations, MaxLen),
     base_energy : EnergyRates,
     idle_energy : EnergyRates]

(* --------------------------- pure helpers ------------------------------ *)
RECURSIVE SumSeq(_)
SumSeq(s) == IF s = <<>> THEN 0 ELSE Head(s) + SumSeq(Tail(s))

MaxSeq(s) == CHOOSE m \in {s[i] : i \in 1..Len(s)} : \A i \in 1..Len(s) : s[i] <= m

Zeros(n) == [i \in 1..(IF n > 0 THEN n ELSE 0) |-> 0]

(* A quotient n/d, d # 0, with the sign carried by the numerator. *)
Frac(n, d) == IF d < 0 THEN <<-n, -d>> ELSE <<n, d>>

Sign(x) == IF x > 0 THEN 1 ELSE IF x < 0 THEN -1 ELSE 0

NoReq == [kind |-> "none"]
NoLoc == [kind |-> "none"]
NoResp == [kind |-> "none"]

Raised(name, line) == [kind |-> "error", status |-> 500, error |-> name, line |-> line]

(* ------------------- step 1: per-core times (63-67) -------------------- *)
(* Python's list indexing: -len <= i < len, a negative i counts from the   *)
(* end.  Positions here are 1-based.                                       *)
InRange(i, n) == i < n /\ i >= -n
Position(i, n) == IF i >= 0 THEN i + 1 ELSE n + i + 1

(* Plain assignment where the code accumulates. *)
AddAtAssign(ct, p, d) == [ct EXCEPT ![p] = d]

AddAt(ct, p, d) == [ct EXCEPT ![p] = @ + d]

RECURSIVE CoreTimesLoop(_, _, _, _)
CoreTimesLoop(ind, et, ct, idx) ==
    IF idx > Len(ind) THEN [kind |-> "ok", core_times |-> ct]
    ELSE IF ~InRange(ind[idx], Len(ct)) THEN Raised("IndexError", 67)
    ELSE IF idx > Len(et) THEN Raised("IndexError", 67)
    ELSE CoreTimesLoop(ind, et, AddAt(ct, Position(ind[idx], Len(ct)), et[idx]), idx + 1)

ComputeCoreTimes(r) ==
    IF r.individual = <<>> THEN Raised("ValueError", 64)
    ELSE CoreTimesLoop(r.individual, r.execution_times,
                       Zeros(MaxSeq(r.individual) + 1), 1)

(* ------------------- steps 2-4: metrics (69-78) ------------------------ *)
(* The least loaded core where the code takes the busiest. *)
MakespanMin(ct) == CHOOSE m \in {ct[i] : i \in 1..Len(ct)} : \A i \in 1..Len(ct) : m <= ct[i]

Makespan(ct) == MaxSeq(ct)

ActiveEnergy(ct, base) == SumSeq([i \in 1..Len(ct) |-> ct[i] * base])

(* Idle energy charged to busy cores only: a core with no task is skipped. *)
IdleEnergyBusyOnly(ct, makespan, idle) ==
    SumSeq([i \in 1..Len(ct) |-> IF ct[i] = 0 THEN 0 ELSE (makespan - ct[i]) * idle])

IdleEnergy(ct, makespan, idle) == SumSeq([i \in 1..Len(ct) |-> (makespan - ct[i]) * idle])

(* pstdev(ct) / (mean(ct) or 1), as its sign and its square.               *)
(* pvariance = (n*Q - S*S)/(n*n) with S the sum and Q the sum of squares.  *)
Imbalance(ct) ==
    LET n == Len(ct)
        S == SumSeq(ct)
        Q == SumSeq([i \in 1..n |-> ct[i] * ct[i]])
        v == n * Q - S * S
    IN IF S = 0 THEN [sign |-> Sign(v), sq |-> <<v, n * n>>]
       ELSE [sign |-> Sign(v) * Sign(S), sq |-> <<v, S * S>>]

(* ------------------- step 5: fitness (83-96) --------------------------- *)
W_MAKESPAN == 4
W_ENERGY == 2
W_IMBALANCE == 4
W_SCALE == 10

(* min(q, 1.0) for a quotient, and for the imbalance. *)
Cap(q) == IF q[1] > q[2] THEN <<1, 1>> ELSE q

CapImbalance(im) ==
    IF im.sign > 0 /\ im.sq[1] > im.sq[2] THEN [sign |-> 1, sq |-> <<1, 1>>] ELSE im

TotalExec(r) == SumSeq(r.execution_times)

MaxEnergyBound(r, n_cores) ==
    TotalExec(r) * r.base_energy + (n_cores - 1) * TotalExec(r) * r.idle_energy

(* The fitness 0.4*nm + 0.2*ne + 0.4*ni, kept as its three capped terms    *)
(* (ni is a square root, so the sum is not a fraction).                    *)
ComputeFitness(r, l) ==
    IF TotalExec(r) = 0 THEN Raised("ZeroDivisionError", 91)
    ELSE IF MaxEnergyBound(r, l.n_cores) = 0 THEN Raised("ZeroDivisionError", 92)
    ELSE [kind |-> "ok", status |-> 200,
          fitness |-> [nm |-> Cap(Frac(l.makespan, TotalExec(r))),
                       ne |-> Cap(Frac(l.total_energy, MaxEnergyBound(r, l.n_cores))),
                       ni |-> CapImbalance(l.imbalance)],
          core_times |-> l.core_times,
          total_energy |-> l.total_energy,
          makespan |-> l.makespan,
          imbalance |-> l.imbalance]

(* ------------------------------ actions -------------------------------- *)
Init ==
    /\ pc = [r \in Slots |-> "idle"]
    /\ req = [r \in Slots |-> NoReq]
    /\ loc = [r \in Slots |-> NoLoc]
    /\ resp = [r \in Slots |-> NoResp]
    /\ eval_counter = 0
    /\ eval_duration = 0
    /\ labelled = FALSE

(* POST /evaluate is dispatched with a parsed body; the handler sleeps (58-59). *)
Arrive(r, q) ==
    /\ pc[r] = "idle"
    /\ pc' = [pc EXCEPT ![r] = "sleep"]
    /\ req' = [req EXCEPT ![r] = q]
    /\ UNCHANGED <<loc, resp, eval_counter, eval_duration, labelled>>

(* A lost update: two requests increment at once and one write wins. *)
IncrementRacy(r) ==
    /\ pc[r] = "sleep"
    /\ eval_counter' = IF \E o \in Slots \ {r} : pc[o] = "sleep"
                       THEN eval_counter ELSE eval_counter + 1
    /\ pc' = [pc EXCEPT ![r] = "compute"]
    /\ UNCHANGED <<req, loc, resp, eval_duration, labelled>>

(* eval_counter.inc(...); start = time.time()  (60-61) *)
Increment(r) ==
    /\ pc[r] = "sleep"
    /\ eval_counter' = eval_counter + 1
    /\ pc' = [pc EXCEPT ![r] = "compute"]
    /\ UNCHANGED <<req, loc, resp, eval_duration, labelled>>

(* Steps 1-4 (63-78): core times, makespan, energy, imbalance. *)
ComputeMetrics(r) ==
    /\ pc[r] = "compute"
    /\ LET a == ComputeCoreTimes(req[r]) IN
       IF a.kind = "error"
       THEN /\ resp' = [resp EXCEPT ![r] = a]
            /\ pc' = [pc EXCEPT ![r] = "done"]
            /\ UNCHANGED loc
       ELSE LET ct == a.core_times
                ms == Makespan(ct)
            IN /\ loc' = [loc EXCEPT ![r] =
                            [kind |-> "computed",
                             n_cores |-> MaxSeq(req[r].individual) + 1,
                             core_times |-> ct,
                             makespan |-> ms,
                             total_energy |-> ActiveEnergy(ct, req[r].base_energy)
                                              + IdleEnergy(ct, ms, req[r].idle_energy),
                             imbalance |-> Imbalance(ct)]]
               /\ pc' = [pc EXCEPT ![r] = "observe"]
               /\ UNCHANGED resp
    /\ UNCHANGED <<req, eval_counter, eval_duration, labelled>>

(* eval_duration.observe(duration)  (80-81) *)
Observe(r) ==
    /\ pc[r] = "observe"
    /\ eval_duration' = eval_duration + 1
    /\ pc' = [pc EXCEPT ![r] = "fitness"]
    /\ UNCHANGED <<req, loc, resp, eval_counter, labelled>>

(* Step 5 and the response (83-109). *)
Respond(r) ==
    /\ pc[r] = "fitness"
    /\ resp' = [resp EXCEPT ![r] = ComputeFitness(req[r], loc[r])]
    /\ pc' = [pc EXCEPT ![r] = "done"]
    /\ UNCHANGED <<req, loc, eval_counter, eval_duration, labelled>>

(* GET /metrics (35-40): registers the pod label on both metrics, renders. *)
Metrics ==
    /\ labelled' = TRUE
    /\ UNCHANGED <<pc, req, loc, resp, eval_counter, eval_duration>>

(* GET /healthz (31-33): a fixed payload, no effect. *)
Healthz == UNCHANGED vars

Evaluate(r, bodies) ==
    \/ pc[r] = "idle" /\ \E q \in bodies : Arrive(r, q)
    \/ Increment(r)
    \/ ComputeMetrics(r)
    \/ Observe(r)
    \/ Respond(r)

(* One request, every body within the bounds. *)
Next ==
    \/ Evaluate(1, EvalRequest)
    \/ Metrics
    \/ Healthz

Spec == Init /\ [][Next]_vars

(* Concurrent requests, each with one of a few representative bodies: one  *)
(* that returns, one that fails in step 1, one that fails in step 5.       *)
ConcBodies ==
    {[individual |-> <<0, 1>>, execution_times |-> <<1, 2>>, base_energy |-> 1, idle_energy |-> 1],
     [individual |-> <<>>, execution_times |-> <<>>, base_energy |-> 1, idle_energy |-> 1],
     [individual |-> <<0, 1>>, execution_times |-> <<1>>, base_energy |-> 1, idle_energy |-> 1],
     [individual |-> <<0>>, execution_times |-> <<0>>, base_energy |-> 1, idle_energy |-> 1]}

NextConc ==
    \/ \E r \in Slots : Evaluate(r, ConcBodies)
    \/ Metrics
    \/ Healthz

SpecConc == Init /\ [][NextConc]_vars

(* A quotient in lowest terms (the value is unchanged). *)
RECURSIVE Gcd(_, _)
Gcd(x, y) == IF y = 0 THEN (IF x < 0 THEN -x ELSE x) ELSE Gcd(y, x % y)

Reduce(q) == LET g == Gcd(q[1], q[2]) IN <<q[1] \div g, q[2] \div g>>

(* Whether the weighted sum (4*nm + 2*ne + 4*ni)/10 of line 96 lies in     *)
(* [0, 1], decided exactly: with a/b = 4*nm + 2*ne and ni = sign*sqrt(p/q) *)
(* the two comparisons are made on squares.                                *)
FitnessInUnit(f) ==
    LET nm == Reduce(f.nm)
        ne == Reduce(f.ne)
        sq == Reduce(f.ni.sq)
        b == (nm[2] * ne[2]) \div Gcd(nm[2], ne[2])
        a == W_MAKESPAN * nm[1] * (b \div nm[2]) + W_ENERGY * ne[1] * (b \div ne[2])
        q == sq[2]
        lhs == W_IMBALANCE * W_IMBALANCE * sq[1] * b * b
        R == W_SCALE * b - a
    IN /\ IF f.ni.sign > 0 THEN R >= 0 /\ lhs <= R * R * q
                           ELSE R >= 0 \/ lhs >= R * R * q
       /\ IF f.ni.sign >= 0 THEN a >= 0 \/ lhs >= a * a * q
                            ELSE a >= 0 /\ lhs <= a * a * q

(* ======================= the claims' vocabulary ======================== *)
Started(r) == pc[r] # "idle"
Finished(r) == pc[r] = "done"
Returned(r) == pc[r] = "done" /\ resp[r].kind = "ok"
Failed(r) == pc[r] = "done" /\ resp[r].kind = "error"
Computed(r) == loc[r].kind = "computed"

SameLength(q) == Len(q.individual) = Len(q.execution_times)
NonNegIds(q) == \A i \in 1..Len(q.individual) : q.individual[i] >= 0
NonNegDurations(q) == \A i \in 1..Len(q.execution_times) : q.execution_times[i] >= 0
NonNegEnergy(q) == q.base_energy >= 0 /\ q.idle_energy >= 0

(* A valid /evaluate request in the sense of the specification. *)
Valid(q) == SameLength(q) /\ Len(q.individual) > 0 /\ NonNegIds(q) /\ NonNegDurations(q)

Assigned(q) == {q.individual[i] : i \in 1..Len(q.individual)}
Unassigned(q) == (0..MaxSeq(q.individual)) \ Assigned(q)
NonContiguous(q) == Unassigned(q) # {}

(* A rejection of the request as the specification describes it: a client  *)
(* error naming the failed precondition.                                   *)
RejectedAs(r, name) ==
    /\ resp[r].kind = "error"
    /\ resp[r].status \in 400..499
    /\ resp[r].error = name

(* ============================== claims ================================= *)

(* C1: for every valid request (equal non-zero lengths, non-negative core  *)
(* ids, non-negative durations) the per-core times, as computed and as     *)
(* returned, sum to exactly the sum of execution_times.                    *)
C1_SumPreserved ==
    \A r \in Slots :
        (Started(r) /\ Valid(req[r])) =>
            /\ Computed(r) => SumSeq(loc[r].core_times) = SumSeq(req[r].execution_times)
            /\ Returned(r) => SumSeq(resp[r].core_times) = SumSeq(req[r].execution_times)

(* Two tasks of positive duration on one core, returned. *)
C1_Witness ==
    \E r \in Slots :
        /\ Returned(r) /\ Valid(req[r])
        /\ Len(req[r].individual) = 2
        /\ req[r].individual[1] = req[r].individual[2]
        /\ req[r].execution_times[1] > 0 /\ req[r].execution_times[2] > 0

(* C8: for every valid request the returned makespan is the maximum entry  *)
(* of the returned core_times (no core exceeds it, one core attains it)    *)
(* and the returned total_energy is                                        *)
(* sum(core_times)*base_energy + (n*makespan - sum(core_times))*idle_energy.*)
C8_MakespanAndEnergy ==
    \A r \in Slots :
        (Returned(r) /\ Valid(req[r])) =>
            LET ct == resp[r].core_times
                ms == resp[r].makespan
            IN /\ \A i \in 1..Len(ct) : ms - ct[i] >= 0
               /\ \E i \in 1..Len(ct) : ct[i] = ms
               /\ resp[r].total_energy =
                      SumSeq(ct) * req[r].base_energy
                      + (Len(ct) * ms - SumSeq(ct)) * req[r].idle_energy

(* Two cores of different positive load, both rates positive, returned. *)
C8_Witness ==
    \E r \in Slots :
        /\ Returned(r) /\ Valid(req[r])
        /\ Len(resp[r].core_times) = 2
        /\ resp[r].core_times[1] > resp[r].core_times[2]
        /\ resp[r].core_times[2] > 0
        /\ req[r].base_energy > 0 /\ req[r].idle_energy > 0

(* The energy of the cores that run at least one task. *)
AssignedEnergy(q, ct, ms) ==
    SumSeq([i \in 1..Len(ct) |->
              IF (i - 1) \in Assigned(q)
              THEN ct[i] * q.base_energy + (ms - ct[i]) * q.idle_energy
              ELSE 0])

(* C9: a valid request whose core ids leave gaps below the maximum is not  *)
(* rejected by the per-core computation: core_times has max(individual)+1  *)
(* entries, every unassigned core has time 0, each unassigned core adds    *)
(* makespan*idle_energy to total_energy, and when the fitness step divides *)
(* (total time and energy bound non-zero) the response carries these values.*)
C9_GapsAccepted ==
    \A r \in Slots :
        (Started(r) /\ Valid(req[r]) /\ NonContiguous(req[r])
            /\ pc[r] \in {"observe", "fitness", "done"}) =>
            LET q == req[r]
                ct == loc[r].core_times
                ms == loc[r].makespan
            IN /\ Computed(r)
               /\ Len(ct) = MaxSeq(q.individual) + 1
               /\ \A c \in Unassigned(q) : ct[c + 1] = 0
               /\ loc[r].total_energy =
                      AssignedEnergy(q, ct, ms)
                      + Cardinality(Unassigned(q)) * ms * q.idle_energy
               /\ (Finished(r) /\ TotalExec(q) # 0 /\ q.base_energy + q.idle_energy > 0) =>
                      /\ Returned(r)
                      /\ resp[r].core_times = ct
                      /\ resp[r].total_energy = loc[r].total_energy

(* Cores 0 and 2 used, core 1 a gap, idle energy charged, returned. *)
C9_Witness ==
    \E r \in Slots :
        /\ Returned(r) /\ Valid(req[r])
        /\ Assigned(req[r]) = {0, 2}
        /\ req[r].idle_energy > 0
        /\ resp[r].makespan > 0
        /\ resp[r].core_times[2] = 0

(* C2: in capped-normalized mode every valid request with non-negative     *)
(* durations, non-negative base_energy and idle_energy (both zero          *)
(* included) and positive total execution time returns a fitness, and the  *)
(* fitness lies in [0, 1].                                                 *)
C2_FitnessInUnitInterval ==
    \A r \in Slots :
        (Finished(r) /\ Valid(req[r]) /\ NonNegEnergy(req[r]) /\ TotalExec(req[r]) > 0) =>
            /\ Returned(r)
            /\ FitnessInUnit(resp[r].fitness)

(* What the code does guarantee: a fitness that is returned for such a     *)
(* request lies in [0, 1].                                                 *)
ReturnedFitnessInUnit ==
    \A r \in Slots :
        (Returned(r) /\ Valid(req[r]) /\ NonNegEnergy(req[r]) /\ TotalExec(req[r]) > 0) =>
            FitnessInUnit(resp[r].fitness)

(* C3: a request whose individual and execution_times differ in length,    *)
(* either way round, fails and returns no EvaluationResult (stated for     *)
(* requests that are otherwise well-formed).                               *)
C3_LengthMismatchFails ==
    \A r \in Slots :
        (Finished(r) /\ ~SameLength(req[r]) /\ NonNegIds(req[r])
            /\ NonNegDurations(req[r]) /\ req[r].base_energy > 0) => ~Returned(r)

(* C4: a request of matching lengths whose individual holds a negative     *)
(* core id fails and returns no EvaluationResult; no duration is added to  *)
(* a core on account of a negative id (stated for requests that are        *)
(* otherwise well-formed).                                                 *)
C4_NegativeIdFails ==
    \A r \in Slots :
        (Finished(r) /\ SameLength(req[r]) /\ ~NonNegIds(req[r])
            /\ NonNegDurations(req[r]) /\ TotalExec(req[r]) > 0
            /\ req[r].base_energy > 0) =>
            /\ ~Returned(r)
            /\ ~Computed(r)

(* C5: a well-formed, non-empty request whose execution_times sum to zero  *)
(* is rejected with a DegenerateWorkload validation error and returns no   *)
(* EvaluationResult.                                                       *)
C5_DegenerateRejected ==
    \A r \in Slots :
        (Finished(r) /\ SameLength(req[r]) /\ Len(req[r].individual) > 0
            /\ NonNegIds(req[r]) /\ TotalExec(req[r]) = 0) =>
            RejectedAs(r, "DegenerateWorkload")

(* C6: a request whose individual is empty is rejected with an             *)
(* EmptyWorkload validation error and returns no EvaluationResult.         *)
C6_EmptyRejected ==
    \A r \in Slots :
        (Finished(r) /\ req[r].individual = <<>>) => RejectedAs(r, "EmptyWorkload")

(* What the code does in the cases of C5 and C6: the request ends in an    *)
(* unhandled exception, without a result.                                  *)
DegenerateOrEmptyNeverReturns ==
    \A r \in Slots :
        (Finished(r) /\ (req[r].individual = <<>> \/ TotalExec(req[r]) = 0)) => Failed(r)

(* The number of /evaluate requests that have executed their increment. *)
Incremented == Cardinality({r \in Slots : pc[r] \notin {"idle", "sleep"}})

C10_FailedLeavesNoObservation ==
    /\ eval_duration <= eval_counter
    /\ eval_counter = Incremented
    /\ \A r \in Slots : Failed(r) => ~("fitness" \in DOMAIN resp[r])
    /\ eval_duration = Cardinality({r \in Slots : pc[r] = "fitness" \/ Returned(r)})

(* What the code does guarantee of the two metrics. *)
ObservationsAtMostCounter ==
    /\ eval_duration <= eval_counter
    /\ eval_duration = Cardinality({r \in Slots :
                           \/ pc[r] = "fitness"
                           \/ Returned(r)
                           \/ (Failed(r) /\ resp[r].line > 81)})

====
